---- MODULE Spec2Model ----
(***************************************************************************)
(* Kalatori payment gateway: the HTTP layer of src/server.rs on top of the *)
(* invoice engine (state::State).  The handlers `order`, `force_withdrawal`*)
(* and `status` are translated from src/server.rs.  The engine operations  *)
(* they await (create_order, force_withdrawal, server_status) and the      *)
(* payment feed's mark_paid live in crate::state, which is not part of the *)
(* available sources; they are modelled from sections 4.2-4.5 of spec.md.  *)
(*                                                                         *)
(* Amounts are f64 in the source.  They are modelled in thousandths        *)
(* (0.07 = 70), on which the only float operation of the code, the         *)
(* comparison `amount < 0.07`, is exact.                                   *)
(***************************************************************************)
EXTENDS Integers, Sequences, FiniteSets, TLC

VARIABLES
    store,      \* InvoiceStore: the set of invoice rows
    withdrawn,  \* WithdrawalCoordinator: orders carrying a withdrawal marker
    transfers,  \* external transfer capability: submissions per order
    feed,       \* last mark_paid call of the payment feed and what it returned
    req,        \* the HTTP requests: position in the handler, inputs, response
    input,      \* what each request carried: its path parameters and JSON body
    server      \* the future returned by `new`: serving, draining, shut down

vars == <<store, withdrawn, transfers, feed, req, input, server>>

(***************************************************************************)
(* Bounds and input domains                                                *)
(***************************************************************************)
NReq == 3                       \* requests served in one behaviour
Requests == 1..NReq

Orders == {"inv-42"}            \* values of the :order_id path segment
NONE == "none"                  \* an absent JSON member / Option::None

\* src/server.rs:84-85, the literal 0.07
ExistentialDeposit == 70

\* JSON bodies of POST /order/:order_id.  "amount" is an Option, <<x>> or <<>>;
\* a member that is absent or has the wrong JSON type is <<>> / NONE (both take
\* the unwrap_or branch).
Payloads ==
    { [currency |-> "DOT", amount |-> <<70>>],
      [currency |-> "DOT", amount |-> <<50>>],
      [currency |-> "DOT", amount |-> <<100>>],
      [currency |-> "DOT", amount |-> <<>>],
      [currency |-> NONE,  amount |-> <<70>>],
      [currency |-> "XYZ", amount |-> <<70>>],
      [currency |-> NONE,  amount |-> <<50>>] }

SupportedCurrencies == {"DOT"}
PaidAmounts == {71, 100}        \* amounts the payment feed reports

ORDER_ID == "order_id"
OrderPath == "/v2/order/:order_id"
ForceWithdrawalPath == "/v2/order/:order_id/forceWithdrawal"

(***************************************************************************)
(* Values                                                                  *)
(***************************************************************************)
NoInvoice == [order |-> NONE, status |-> NONE, amount |-> 0, currency |-> NONE]

Invoice(o, s, a, c) == [order |-> o, status |-> s, amount |-> a, currency |-> c]

\* Result<RawPathParams, RawPathParamsRejection>
PathOk(params) == [ok |-> TRUE, params |-> params]
PathRejected == [ok |-> FALSE, params |-> <<>>]

\* what RawPathParams can hold when process_order or process_force_withdrawal
\* is called: the route's order_id, other parameters only, or a rejection
PathResults ==
    {PathOk(<< <<"order_id", o>> >>) : o \in Orders}
        \cup {PathOk(<< <<"paymentAccount", "inv-42">> >>), PathRejected}

NoPayload == [currency |-> NONE, amount |-> <<>>]
NoInput == [path_result |-> PathRejected, payload |-> NoPayload]

NoQuery == [order |-> NONE, amount |-> 0, currency |-> NONE]

NoResponse == [status |-> 0, kind |-> NONE, invoice |-> NoInvoice,
               params |-> <<>>, cache |-> NONE, pending |-> 0, paid |-> 0]

IdleRequest == [pc |-> "idle", handler |-> NONE, query |-> NoQuery,
                calls |-> 0, resp |-> NoResponse]

(***************************************************************************)
(* src/server.rs: the synchronous parts of the handlers                    *)
(***************************************************************************)

\* order, lines 110-129: the OrderQuery built from the path and the JSON body
ParseOrderQuery(order_id, payload) ==
    [order    |-> order_id,
     currency |-> IF payload.currency = NONE THEN "Unknown" ELSE payload.currency,
     amount   |-> IF payload.amount = <<>> THEN 0 ELSE payload.amount[1]]

\* path_parameters.iter().find_map(|(key, value)| (key == ORDER_ID).then_some(value))
FindOrderId(params) ==
    LET hits == {i \in 1..Len(params) : params[i][1] = ORDER_ID}
    IN  IF hits = {} THEN NONE
        ELSE params[CHOOSE i \in hits : \A j \in hits : i <= j][2]

\* the comparison written as <=
BelowMinimumInclusive(amount) == amount <= ExistentialDeposit

\* the check left out
BelowMinimumNever(amount) == FALSE

\* process_order, line 84: amount < 0.07
BelowMinimum(amount) == amount < ExistentialDeposit

Err(kind, param) == [ok |-> FALSE, kind |-> kind, param |-> param,
                     invoice |-> NoInvoice, query |-> NoQuery]
Ok(kind, invoice) == [ok |-> TRUE, kind |-> kind, param |-> NONE,
                      invoice |-> invoice, query |-> NoQuery]
Call(query) == [ok |-> TRUE, kind |-> "call", param |-> NONE,
                invoice |-> NoInvoice, query |-> query]

\* process_order with the amount check moved in front of the path checks
ProcessOrderChecksAmountFirst(matched_path, path_result, payload) ==
    IF BelowMinimum(payload.amount)
         THEN Err("LessThanExistentialDeposit", "0.07")
    ELSE IF ~path_result.ok THEN Err("InvalidParameter", matched_path)
    ELSE IF FindOrderId(path_result.params) = NONE
         THEN Err("MissingParameter", ORDER_ID)
    ELSE Call([order    |-> FindOrderId(path_result.params),
               amount   |-> payload.amount,
               currency |-> payload.currency])

\* process_order, lines 72-86: everything before state.create_order is awaited.
\* The result is an OrderError or the OrderQuery handed to the engine.
ProcessOrderChecks(matched_path, path_result, payload) ==
    IF ~path_result.ok THEN Err("InvalidParameter", matched_path)
    ELSE IF FindOrderId(path_result.params) = NONE
         THEN Err("MissingParameter", ORDER_ID)
    ELSE IF BelowMinimum(payload.amount)
         THEN Err("LessThanExistentialDeposit", "0.07")
    ELSE Call([order    |-> FindOrderId(path_result.params),
               amount   |-> payload.amount,
               currency |-> payload.currency])

\* process_order, lines 88-96: .map_err(|_| OrderError::InternalError)
ProcessOrderResult(engine) ==
    IF engine.ok THEN Ok(engine.kind, engine.invoice)
    ELSE Err("InternalError", NONE)

Http(status, kind, invoice, params) ==
    [status |-> status, kind |-> kind, invoice |-> invoice, params |-> params,
     cache |-> NONE, pending |-> 0, paid |-> 0]

InvalidParameter(parameter, message) == [parameter |-> parameter, message |-> message]

\* a handler that answers 409 Conflict's case like a found order
OrderOkResponseCollidedAsFound(result) ==
    CASE result.kind = "NewOrder"      -> Http(201, "NewOrder", result.invoice, <<>>)
      [] result.kind = "FoundOrder"    -> Http(200, "FoundOrder", result.invoice, <<>>)
      [] result.kind = "ModifiedOrder" -> Http(200, "ModifiedOrder", result.invoice, <<>>)
      [] result.kind = "CollidedOrder" -> Http(200, "FoundOrder", result.invoice, <<>>)
      [] result.kind = "NotFound"      -> Http(404, "NotFound", NoInvoice, <<>>)

\* a handler that answers every order it returns as newly created
OrderOkResponseFoundAsNew(result) ==
    CASE result.kind = "NewOrder"      -> Http(201, "NewOrder", result.invoice, <<>>)
      [] result.kind = "FoundOrder"    -> Http(201, "NewOrder", result.invoice, <<>>)
      [] result.kind = "ModifiedOrder" -> Http(200, "ModifiedOrder", result.invoice, <<>>)
      [] result.kind = "CollidedOrder" -> Http(409, "CollidedOrder", result.invoice, <<>>)
      [] result.kind = "NotFound"      -> Http(404, "NotFound", NoInvoice, <<>>)

\* a handler with the FoundOrder and CollidedOrder arms swapped
OrderOkResponseSwapped(result) ==
    CASE result.kind = "NewOrder"      -> Http(201, "NewOrder", result.invoice, <<>>)
      [] result.kind = "FoundOrder"    -> Http(409, "CollidedOrder", result.invoice, <<>>)
      [] result.kind = "ModifiedOrder" -> Http(200, "ModifiedOrder", result.invoice, <<>>)
      [] result.kind = "CollidedOrder" -> Http(200, "FoundOrder", result.invoice, <<>>)
      [] result.kind = "NotFound"      -> Http(404, "NotFound", NoInvoice, <<>>)

\* order, lines 132-138: the response for each OrderResponse
OrderOkResponse(result) ==
    CASE result.kind = "NewOrder"      -> Http(201, "NewOrder", result.invoice, <<>>)
      [] result.kind = "FoundOrder"    -> Http(200, "FoundOrder", result.invoice, <<>>)
      [] result.kind = "ModifiedOrder" -> Http(200, "ModifiedOrder", result.invoice, <<>>)
      [] result.kind = "CollidedOrder" -> Http(409, "CollidedOrder", result.invoice, <<>>)
      [] result.kind = "NotFound"      -> Http(404, "NotFound", NoInvoice, <<>>)

\* order, lines 139-173: the response for each OrderError
OrderErrResponse(result) ==
    CASE result.kind = "LessThanExistentialDeposit" ->
            Http(400, result.kind, NoInvoice,
                 <<InvalidParameter("amount",
                     "provided amount is less than the currency's existential deposit (0.07)")>>)
      [] result.kind = "UnknownCurrency" ->
            Http(400, result.kind, NoInvoice,
                 <<InvalidParameter("currency", "provided currency isn't supported")>>)
      [] result.kind = "MissingParameter" ->
            Http(400, result.kind, NoInvoice,
                 <<InvalidParameter(result.param, "parameter wasn't found")>>)
      [] result.kind = "InvalidParameter" ->
            Http(400, result.kind, NoInvoice,
                 <<InvalidParameter(result.param, "parameter's format is invalid")>>)
      [] result.kind = "InternalError" ->
            Http(500, result.kind, NoInvoice, <<>>)

\* order, lines 131-174: the response for each result of process_order
OrderResponse(result) ==
    IF result.ok THEN OrderOkResponse(result) ELSE OrderErrResponse(result)

\* process_force_withdrawal, lines 184-190: everything before
\* state.force_withdrawal is awaited
ProcessForceWithdrawalChecks(matched_path, path_result) ==
    IF ~path_result.ok THEN Err("InvalidParameter", matched_path)
    ELSE IF FindOrderId(path_result.params) = NONE
         THEN Err("MissingParameter", ORDER_ID)
    ELSE Call([order |-> FindOrderId(path_result.params),
               amount |-> 0, currency |-> NONE])

\* an error conversion that loses which withdrawal error it was
ProcessForceWithdrawalResultLossy(engine) ==
    IF engine.ok THEN Ok("Withdrawn", engine.invoice)
    ELSE Err("WithdrawalError", "ChainUnreachable")

\* process_force_withdrawal, lines 191-194:
\* .map_err(|e| ForceWithdrawalError::WithdrawalError(e.into()))
ProcessForceWithdrawalResult(engine) ==
    IF engine.ok THEN Ok("Withdrawn", engine.invoice)
    ELSE Err("WithdrawalError", engine.kind)

\* a handler that answers a withdrawal error without its body
ForceWithdrawalResponseNoBody(result) ==
    IF result.ok THEN Http(201, "Withdrawn", result.invoice, <<>>)
    ELSE CASE result.kind = "WithdrawalError" ->
                Http(400, "WithdrawalError", NoInvoice, <<>>)
           [] result.kind = "MissingParameter" ->
                Http(400, result.kind, NoInvoice,
                     <<InvalidParameter(result.param, "parameter wasn't found")>>)
           [] result.kind = "InvalidParameter" ->
                Http(400, result.kind, NoInvoice,
                     <<InvalidParameter(result.param, "parameter's format is invalid")>>)

\* a handler that answers a withdrawal error as an internal error
ForceWithdrawalResponseInternal(result) ==
    IF result.ok THEN Http(201, "Withdrawn", result.invoice, <<>>)
    ELSE CASE result.kind = "WithdrawalError" ->
                Http(500, result.param, NoInvoice, <<>>)
           [] result.kind = "MissingParameter" ->
                Http(400, result.kind, NoInvoice,
                     <<InvalidParameter(result.param, "parameter wasn't found")>>)
           [] result.kind = "InvalidParameter" ->
                Http(400, result.kind, NoInvoice,
                     <<InvalidParameter(result.param, "parameter's format is invalid")>>)

\* force_withdrawal, lines 203-224
ForceWithdrawalResponse(result) ==
    IF result.ok THEN Http(201, "Withdrawn", result.invoice, <<>>)
    ELSE CASE result.kind = "WithdrawalError" ->
                Http(400, result.param, NoInvoice, <<>>)
           [] result.kind = "MissingParameter" ->
                Http(400, result.kind, NoInvoice,
                     <<InvalidParameter(result.param, "parameter wasn't found")>>)
           [] result.kind = "InvalidParameter" ->
                Http(400, result.kind, NoInvoice,
                     <<InvalidParameter(result.param, "parameter's format is invalid")>>)

\* a status response without the Cache-Control header
StatusResponseCacheable(st) ==
    [status |-> 200, kind |-> "ServerStatus", invoice |-> NoInvoice, params |-> <<>>,
     cache |-> NONE, pending |-> st.pending, paid |-> st.paid]

\* status, line 231: the Ok arm
StatusResponse(st) ==
    [status |-> 200, kind |-> "ServerStatus", invoice |-> NoInvoice, params |-> <<>>,
     cache |-> "no-store", pending |-> st.pending, paid |-> st.paid]

(***************************************************************************)
(* crate::state (not among the sources): modelled from spec.md 4.2-4.5     *)
(***************************************************************************)

Rows(st, o) == {i \in st : i.order = o}

EngineOk(kind, invoice, st) == [ok |-> TRUE, kind |-> kind, invoice |-> invoice, store |-> st]
EngineErr(kind, st) == [ok |-> FALSE, kind |-> kind, invoice |-> NoInvoice, store |-> st]

\* OrderEngine.createOrGetOrder (spec.md 4.3), one atomic write transaction.
\* `up` is whether the store answers during the transaction.
create_order(st, q, up) ==
    IF q.currency \notin SupportedCurrencies THEN EngineErr("UnknownCurrency", st)
    ELSE IF ~up THEN EngineErr("StoreError", st)
    ELSE IF Rows(st, q.order) = {} THEN
        LET inv == Invoice(q.order, "Unpaid", q.amount, q.currency)
        IN  EngineOk("NewOrder", inv, st \cup {inv})
    ELSE LET inv == CHOOSE i \in Rows(st, q.order) : TRUE
         IN  IF inv.status = "Paid" THEN EngineOk("FoundOrder", inv, st)
             ELSE IF inv.amount = q.amount THEN EngineOk("FoundOrder", inv, st)
             ELSE EngineOk("CollidedOrder", inv, st)

\* a markPaid that records every notification, paid or not
mark_paid_overwrite(st, o, a) ==
    IF Rows(st, o) = {} THEN EngineErr("UnknownInvoice", st)
    ELSE LET inv == CHOOSE i \in Rows(st, o) : TRUE
             paid == [inv EXCEPT !.status = "Paid", !.amount = a]
         IN  EngineOk("Paid", paid, (st \ {inv}) \cup {paid})

\* OrderEngine.markPaid (spec.md 4.3)
mark_paid(st, o, a) ==
    IF Rows(st, o) = {} THEN EngineErr("UnknownInvoice", st)
    ELSE LET inv == CHOOSE i \in Rows(st, o) : TRUE
         IN  IF inv.status = "Paid" THEN EngineOk("Paid", inv, st)
             ELSE LET paid == [inv EXCEPT !.status = "Paid", !.amount = a]
                  IN  EngineOk("Paid", paid, (st \ {inv}) \cup {paid})

\* what the external transfer capability answers to a submission attempt
TransferOutcomes == {"Submitted", "InsufficientBalance", "ChainUnreachable"}

\* WithdrawalCoordinator.forceWithdrawal (spec.md 4.4).  `submit` tells whether
\* a transfer was handed to the external capability.
force_withdrawal(st, marked, o, outcome) ==
    LET rows == Rows(st, o)
        res(ok, kind, inv, submit) ==
            [ok |-> ok, kind |-> kind, invoice |-> inv, submit |-> submit]
    IN  IF rows = {} THEN res(FALSE, "NotPayable", NoInvoice, FALSE)
        ELSE LET inv == CHOOSE i \in rows : TRUE
             IN  IF inv.status # "Paid" THEN res(FALSE, "NotPayable", NoInvoice, FALSE)
                 ELSE IF o \in marked THEN res(FALSE, "AlreadyWithdrawn", NoInvoice, FALSE)
                 ELSE IF outcome = "Submitted" THEN res(TRUE, "Withdrawn", inv, TRUE)
                 ELSE res(FALSE, outcome, NoInvoice, FALSE)

\* StatusAggregator.serverStatus (spec.md 4.5)
server_status(st) ==
    [pending |-> Cardinality({i \in st : i.status = "Unpaid"}),
     paid    |-> Cardinality({i \in st : i.status = "Paid"})]

(***************************************************************************)
(* The state machine                                                       *)
(***************************************************************************)
NoFeed == [order |-> NONE, amount |-> 0, ok |-> FALSE, kind |-> NONE, invoice |-> NoInvoice]

Init ==
    /\ store = {}
    /\ withdrawn = {}
    /\ transfers = [o \in Orders |-> 0]
    /\ feed = NoFeed
    /\ req = [r \in Requests |-> IdleRequest]
    /\ input = [r \in Requests |-> NoInput]
    /\ server = "serving"

\* a server that goes on accepting after the shutdown signal
AcceptingAlways == TRUE

\* new, lines 49-51: axum::serve(..).with_graceful_shutdown(..) accepts
\* requests until the shutdown notification is cancelled
Accepting == server = "serving"

\* Requests are numbered in the order in which their handlers start.
Fresh(r) ==
    /\ Accepting
    /\ req[r].pc = "idle" /\ (IF r = 1 THEN TRUE ELSE req[r - 1].pc # "idle")

Panic(r, handler) ==
    req' = [req EXCEPT ![r] = [pc |-> "panicked", handler |-> handler,
                               query |-> NoQuery, calls |-> 0, resp |-> NoResponse]]

Carries(r, path_result, payload) ==
    input' = [input EXCEPT ![r] = [path_result |-> path_result, payload |-> payload]]

Done(r, handler, query, calls, resp) ==
    req' = [req EXCEPT ![r] = [pc |-> "done", handler |-> handler, query |-> query,
                               calls |-> calls, resp |-> resp]]

Await(r, handler, query) ==
    req' = [req EXCEPT ![r] = [pc |-> "await", handler |-> handler, query |-> query,
                               calls |-> 0, resp |-> NoResponse]]

\* process_order called with path_result and the OrderQuery of `order`
\* (lines 110-129, 64-95), up to the await of state.create_order
ProcessOrderBegin(r, o, path_result, payload) ==
    LET q == ParseOrderQuery(o, payload)
        c == ProcessOrderChecks(OrderPath, path_result, q)
    IN  /\ IF c.kind = "call"
           THEN Await(r, "order", c.query)
           ELSE Done(r, "order", q, 0, OrderResponse(c))
        /\ Carries(r, path_result, payload)
        /\ UNCHANGED <<store, withdrawn, transfers, feed, server>>

\* POST /v2/order/:order_id, up to the await of state.create_order (lines 102-95).
\* The handler body runs only when the Path<String> extractor succeeded, so
\* path_result is Ok and holds the route's order_id.
OrderBegin(r) ==
    /\ Fresh(r)
    /\ \E o \in Orders, payload \in Payloads :
         ProcessOrderBegin(r, o, PathOk(<< <<ORDER_ID, o>> >>), payload)

\* state.create_order resolves (lines 88-96) and `order` answers (lines 131-174)
OrderEnd(r) ==
    /\ req[r].pc = "await" /\ req[r].handler = "order"
    /\ \E up \in BOOLEAN :
         LET e == create_order(store, req[r].query, up)
         IN  /\ store' = e.store
             /\ Done(r, "order", req[r].query, 1, OrderResponse(ProcessOrderResult(e)))
    /\ UNCHANGED <<withdrawn, transfers, feed, input, server>>

\* process_force_withdrawal called with path_result (lines 177-193), up to the
\* await of state.force_withdrawal
ProcessForceWithdrawalBegin(r, path_result) ==
    LET c == ProcessForceWithdrawalChecks(ForceWithdrawalPath, path_result)
    IN  /\ IF c.kind = "call"
           THEN Await(r, "force_withdrawal", c.query)
           ELSE Done(r, "force_withdrawal", NoQuery, 0, ForceWithdrawalResponse(c))
        /\ Carries(r, path_result, NoPayload)
        /\ UNCHANGED <<store, withdrawn, transfers, feed, server>>

\* POST /v2/order/:order_id/forceWithdrawal, up to the await (lines 198-190).
\* This handler has no Path extractor: a rejected path reaches its body.
ForceWithdrawalBegin(r) ==
    /\ Fresh(r)
    /\ \E path_result \in {PathOk(<< <<ORDER_ID, o>> >>) : o \in Orders} \cup {PathRejected} :
         ProcessForceWithdrawalBegin(r, path_result)

\* state.force_withdrawal resolves (lines 191-194) and the handler answers
ForceWithdrawalEnd(r) ==
    /\ req[r].pc = "await" /\ req[r].handler = "force_withdrawal"
    /\ \E outcome \in TransferOutcomes :
         LET o == req[r].query.order
             e == force_withdrawal(store, withdrawn, o, outcome)
         IN  /\ withdrawn' = IF e.submit THEN withdrawn \cup {o} ELSE withdrawn
             /\ transfers' = IF e.submit THEN [transfers EXCEPT ![o] = @ + 1]
                             ELSE transfers
             /\ Done(r, "force_withdrawal", req[r].query, 1,
                     ForceWithdrawalResponse(ProcessForceWithdrawalResult(e)))
    /\ UNCHANGED <<store, feed, input, server>>

\* GET /v2/status (lines 227-234).  A panic unwinds the task serving the
\* connection: the request ends without a response.
Status(r) ==
    /\ Fresh(r)
    /\ \E up \in BOOLEAN :
         IF up
         THEN Done(r, "status", NoQuery, 1, StatusResponse(server_status(store)))
         ELSE req' = [req EXCEPT ![r] = [pc |-> "panicked", handler |-> "status",
                                         query |-> NoQuery, calls |-> 1,
                                         resp |-> NoResponse]]
    /\ UNCHANGED <<store, withdrawn, transfers, feed, input, server>>

\* GET /v2/health (lines 236-240): todo!()
Health(r) ==
    /\ Fresh(r)
    /\ Panic(r, "health")
    /\ UNCHANGED <<store, withdrawn, transfers, feed, input, server>>

\* GET /v2/audit (lines 242-244)
Audit(r) ==
    /\ Fresh(r)
    /\ Done(r, "audit", NoQuery, 0, Http(501, "NotImplemented", NoInvoice, <<>>))
    /\ UNCHANGED <<store, withdrawn, transfers, feed, input, server>>

\* POST /v2/order/:order_id/investigate (lines 246-254): todo!()
Investigate(r) ==
    /\ Fresh(r)
    /\ Panic(r, "investigate")
    /\ UNCHANGED <<store, withdrawn, transfers, feed, input, server>>

\* POST /public/v2/payment/:paymentAccount (lines 256-264): todo!()
PublicPaymentAccount(r) ==
    /\ Fresh(r)
    /\ Panic(r, "public_payment_account")
    /\ UNCHANGED <<store, withdrawn, transfers, feed, input, server>>

\* the payment feed reports `a` received on the deposit account of order o
MarkPaid(o, a) ==
    /\ LET e == mark_paid(store, o, a)
       IN  /\ store' = e.store
           /\ feed' = [order |-> o, amount |-> a, ok |-> e.ok, kind |-> e.kind,
                       invoice |-> e.invoice]
    /\ UNCHANGED <<withdrawn, transfers, req, input, server>>

InFlight == {r \in Requests : req[r].pc = "await"}

\* the process-wide shutdown_notification is cancelled (line 50)
Shutdown ==
    /\ server = "serving"
    /\ server' = "draining"
    /\ UNCHANGED <<store, withdrawn, transfers, feed, req, input>>

\* axum::serve resolves once no request is in flight; the future returns
\* "The server module is shut down." (lines 49-54)
ServerExit ==
    /\ server = "draining"
    /\ InFlight = {}
    /\ server' = "shut down"
    /\ UNCHANGED <<store, withdrawn, transfers, feed, req, input>>

Next ==
    \/ \E r \in Requests : OrderBegin(r)
    \/ \E r \in Requests : OrderEnd(r)
    \/ \E r \in Requests : ForceWithdrawalBegin(r)
    \/ \E r \in Requests : ForceWithdrawalEnd(r)
    \/ \E r \in Requests : Status(r)
    \/ \E r \in Requests : Health(r)
    \/ \E r \in Requests : Audit(r)
    \/ \E r \in Requests : Investigate(r)
    \/ \E r \in Requests : PublicPaymentAccount(r)
    \/ Shutdown
    \/ ServerExit
    \/ \E o \in Orders, a \in PaidAmounts : MarkPaid(o, a)

Spec == Init /\ [][Next]_vars

\* The server under a fair scheduler: a request in flight is eventually
\* resumed (the engine calls return) and the serve future is eventually polled.
Fairness ==
    /\ \A r \in Requests : WF_vars(OrderEnd(r))
    /\ \A r \in Requests : WF_vars(ForceWithdrawalEnd(r))
    /\ WF_vars(ServerExit)

FairSpec == Spec /\ Fairness

\* process_order called on its own, with whatever RawPathParams result
DirectProcessOrder(r) ==
    /\ Fresh(r)
    /\ \E o \in Orders, path_result \in PathResults, payload \in Payloads :
         ProcessOrderBegin(r, o, path_result, payload)

\* process_force_withdrawal called on its own
DirectProcessForceWithdrawal(r) ==
    /\ Fresh(r)
    /\ \E path_result \in PathResults : ProcessForceWithdrawalBegin(r, path_result)

NextDirect ==
    \/ \E r \in Requests : DirectProcessOrder(r)
    \/ \E r \in Requests : OrderEnd(r)
    \/ \E r \in Requests : DirectProcessForceWithdrawal(r)
    \/ \E r \in Requests : ForceWithdrawalEnd(r)

\* the two process_* functions driven directly, as a caller of the module may
SpecDirect == Init /\ [][NextDirect]_vars

(***************************************************************************)
(* Properties                                                              *)
(***************************************************************************)
Started(r) == req[r].pc # "idle"
IsDone(r) == req[r].pc = "done"

\* the step in which request r receives its response
Completes(r) == req[r].pc # "done" /\ req'[r].pc = "done"

\* the step in which the engine call of request r resolves
EngineStep(r, handler) ==
    /\ req[r].pc = "await" /\ req[r].handler = handler
    /\ req'[r].pc = "done"

\* the create-order requests for order o
OrderRequests(o) ==
    {r \in Requests : Started(r) /\ req[r].handler = "order" /\ req[r].query.order = o}

Answered(o, kind) == {r \in OrderRequests(o) : IsDone(r) /\ req[r].resp.kind = kind}

InternalErrorResponse == Http(500, "InternalError", NoInvoice, <<>>)

LessThanExistentialDepositResponse ==
    Http(400, "LessThanExistentialDeposit", NoInvoice,
         <<[parameter |-> "amount",
            message |-> "provided amount is less than the currency's existential deposit (0.07)"]>>)

\* C1: N >= 2 create-order calls with the same (order, amount), the amount at
\* least the minimum, on an invoice absent at the start: however their engine
\* calls interleave, at most one is ever answered NewOrder and the store never
\* holds two rows for the order; once all have been answered without a store
\* failure, exactly one was answered NewOrder (201), the other N-1 FoundOrder
\* (200), and the store holds exactly one invoice for the order.
C1_ConcurrentCreateOnce ==
    \A o \in Orders :
        LET G == OrderRequests(o)
        IN  /\ Cardinality(Answered(o, "NewOrder")) <= 1
            /\ Cardinality(Rows(store, o)) <= 1
            /\ ( /\ Cardinality(G) >= 2
                 /\ \A r \in G : IsDone(r)
                 /\ \A r, t \in G : req[r].query = req[t].query
                 /\ \A r \in G : /\ req[r].query.amount >= ExistentialDeposit
                                 /\ req[r].query.currency \in SupportedCurrencies
                                 /\ req[r].resp # InternalErrorResponse )
               => /\ Cardinality(Answered(o, "NewOrder")) = 1
                  /\ Cardinality(Answered(o, "FoundOrder")) = Cardinality(G) - 1
                  /\ \A r \in Answered(o, "NewOrder") : req[r].resp.status = 201
                  /\ \A r \in Answered(o, "FoundOrder") : req[r].resp.status = 200
                  /\ Cardinality(Rows(store, o)) = 1

\* C1 witness: two calls with the same (order, amount) were in flight together
\* (request 1 started first, request 2's transaction ran first) and both are
\* answered: request 2 NewOrder, request 1 FoundOrder.
C1_Witness ==
    /\ req[1].handler = "order" /\ req[2].handler = "order"
    /\ req[1].query = req[2].query
    /\ IsDone(1) /\ IsDone(2)
    /\ req[2].resp.kind = "NewOrder" /\ req[1].resp.kind = "FoundOrder"
    /\ Cardinality(Rows(store, req[1].query.order)) = 1

\* C2: a create-order request whose amount is below the minimum is answered in
\* the step that starts it with 400 LessThanExistentialDeposit naming "amount",
\* without a call of state.create_order and with the stored invoices unchanged;
\* a request whose amount is the minimum or more is not answered with that error.
C2_BelowMinimumRejected ==
    [][\A r \in Requests :
         (req[r].pc = "idle" /\ req'[r].handler = "order") =>
            IF req'[r].query.amount < ExistentialDeposit
            THEN /\ req'[r].pc = "done"
                 /\ req'[r].resp = LessThanExistentialDepositResponse
                 /\ req'[r].calls = 0
                 /\ store' = store
            ELSE /\ req'[r].pc = "await"
                 /\ req'[r].resp.kind # "LessThanExistentialDeposit"]_vars

\* C2 witness: a request below the minimum was rejected while the store held an
\* invoice, and a request with exactly the minimum created that invoice.
C2_Witness ==
    \E r, t \in Requests :
        /\ req[r].handler = "order" /\ IsDone(r)
        /\ req[r].query.amount = 50
        /\ req[r].resp.status = 400 /\ req[r].calls = 0
        /\ req[t].handler = "order" /\ IsDone(t) /\ t < r
        /\ req[t].query.amount = ExistentialDeposit
        /\ req[t].resp.kind = "NewOrder"
        /\ req[t].resp.invoice \in store

C4_MonotonicStatus ==
    [][/\ \A i \in store : i.status = "Paid" => i \in store'
       /\ \A i \in store : \A j \in store' :
            (i.order = j.order /\ i.status # j.status)
            => /\ i.status = "Unpaid" /\ j.status = "Paid"
               /\ feed'.order = i.order /\ feed'.ok /\ feed'.invoice = j
               /\ j.amount = feed'.amount
       /\ \A o \in Orders, a \in PaidAmounts : \A i \in Rows(store, o) :
            MarkPaid(o, a) =>
               IF i.status = "Paid"
               THEN store' = store /\ feed'.ok /\ feed'.invoice = i
               ELSE /\ store' = (store \ {i}) \cup {Invoice(o, "Paid", a, i.currency)}
                    /\ feed'.ok /\ feed'.invoice = Invoice(o, "Paid", a, i.currency)]_vars

\* C4 witness: an invoice is Paid and the last markPaid, which reported another
\* amount, returned it with the original amount.
C4_Witness ==
    /\ feed.ok
    /\ feed.invoice \in store
    /\ feed.invoice.status = "Paid"
    /\ feed.invoice.amount # feed.amount

\* the force-withdrawal requests for order o that were answered `kind`
Withdrawals(o, kind) ==
    {r \in Requests : /\ req[r].handler = "force_withdrawal" /\ IsDone(r)
                      /\ req[r].query.order = o /\ req[r].resp.kind = kind}

\* C5: once a forceWithdrawal for an order has succeeded (201), every later
\* forceWithdrawal for it is answered 400 AlreadyWithdrawn and submits nothing:
\* the transfers submitted for the order stay at one.
C5_WithdrawalIdempotent ==
    [][\A r \in Requests :
         ( /\ EngineStep(r, "force_withdrawal")
           /\ Withdrawals(req[r].query.order, "Withdrawn") # {} )
         => /\ req'[r].resp = Http(400, "AlreadyWithdrawn", NoInvoice, <<>>)
            /\ transfers[req[r].query.order] = 1
            /\ transfers' = transfers
            /\ store' = store]_vars

\* C5 witness: one forceWithdrawal succeeded, a second one was answered
\* AlreadyWithdrawn, and one transfer was submitted.
C5_Witness ==
    \E o \in Orders :
        /\ Withdrawals(o, "Withdrawn") # {}
        /\ Withdrawals(o, "AlreadyWithdrawn") # {}
        /\ transfers[o] = 1

\* C6: NewOrder is answered at most once per order and the store holds at most
\* one invoice per order; a create-order call that finds its order Unpaid with
\* the same amount is answered 200 FoundOrder with the stored invoice (or 500
\* when the store fails); an invoice that is stored stays stored in every step.
C6_CreateOnceNeverDeleted ==
    [][/\ \A o \in Orders :
            /\ Cardinality({r \in Requests : /\ req'[r].handler = "order"
                                             /\ req'[r].query.order = o
                                             /\ req'[r].resp.kind = "NewOrder"}) <= 1
            /\ Cardinality(Rows(store', o)) <= 1
       /\ \A i \in store : Rows(store', i.order) # {}
       /\ \A r \in Requests : \A i \in store :
            ( /\ EngineStep(r, "order")
              /\ i.order = req[r].query.order
              /\ i.status = "Unpaid"
              /\ i.amount = req[r].query.amount
              /\ req[r].query.currency \in SupportedCurrencies )
            => /\ req'[r].resp \in {Http(200, "FoundOrder", i, <<>>), InternalErrorResponse}
               /\ store' = store]_vars

\* C6 witness: two calls with the same amount were answered NewOrder, then
\* FoundOrder with the same invoice, and markPaid has run on the invoice, which
\* is still the only one stored.
C6_Witness ==
    \E r, t \in Requests :
        /\ r < t
        /\ req[r].handler = "order" /\ req[t].handler = "order"
        /\ IsDone(r) /\ IsDone(t)
        /\ req[r].query = req[t].query
        /\ req[r].resp.status = 201 /\ req[t].resp.status = 200
        /\ req[r].resp.invoice = req[t].resp.invoice
        /\ Cardinality(Rows(store, req[r].query.order)) = 1
        /\ feed.ok

\* the invoice of the example scenario: order "inv-42" created with 0.07, Unpaid
ExampleInvoice == Invoice("inv-42", "Unpaid", ExistentialDeposit, "DOT")

\* C7 as stated: while order "inv-42" is stored Unpaid with amount 0.07, a
\* create call for it with amount 0.05 is answered CollidedOrder carrying the
\* 0.07 invoice.
C7_AsStated ==
    [][\A r \in Requests :
         ( /\ Completes(r) /\ req'[r].handler = "order"
           /\ req'[r].query.order = "inv-42" /\ req'[r].query.amount = 50
           /\ ExampleInvoice \in store )
         => req'[r].resp = Http(409, "CollidedOrder", ExampleInvoice, <<>>)]_vars

\* C7 amended: while order "inv-42" is stored Unpaid with amount 0.07, a create
\* call for it with amount 0.05 is answered 400 LessThanExistentialDeposit
\* without reaching the engine, and one with amount 0.1 is answered 409
\* CollidedOrder carrying the 0.07 invoice (or 500 when the store fails); in
\* both cases the 0.07 invoice stays stored.
C7_ExampleScenario ==
    [][\A r \in Requests :
         ( /\ Completes(r) /\ req'[r].handler = "order"
           /\ req'[r].query.order = "inv-42"
           /\ req'[r].query.currency \in SupportedCurrencies
           /\ ExampleInvoice \in store )
         => /\ req'[r].query.amount = 50 =>
                 /\ req'[r].resp = LessThanExistentialDepositResponse
                 /\ req'[r].calls = 0
            /\ req'[r].query.amount = 100 =>
                 req'[r].resp \in {Http(409, "CollidedOrder", ExampleInvoice, <<>>),
                                   InternalErrorResponse}
            /\ ExampleInvoice \in store']_vars

\* C7 witness: the 0.07 invoice is stored Unpaid, a call with 0.05 was rejected
\* and a call with 0.1 was answered CollidedOrder with the 0.07 invoice.
C7_Witness ==
    \E r, t, u \in Requests :
        /\ req[r].resp = Http(201, "NewOrder", ExampleInvoice, <<>>)
        /\ req[t].handler = "order" /\ req[t].query.amount = 50
        /\ req[t].resp = LessThanExistentialDepositResponse
        /\ req[u].handler = "order" /\ req[u].query.amount = 100
        /\ req[u].resp = Http(409, "CollidedOrder", ExampleInvoice, <<>>)
        /\ r < t /\ r < u
        /\ ExampleInvoice \in store

\* C8: when the engine call of a create-order request resolves while the
\* invoice of its order is Paid, the request is answered 200 FoundOrder with
\* the stored invoice, whose amount is the received one, whatever amount the
\* request asks (or 500 when the store fails), never NewOrder or CollidedOrder,
\* and the stored invoices are unchanged.
C8_PaidIsFound ==
    [][\A r \in Requests : \A i \in store :
         ( /\ EngineStep(r, "order")
           /\ i.order = req[r].query.order
           /\ i.status = "Paid"
           /\ req[r].query.currency \in SupportedCurrencies )
         => /\ req'[r].resp \in {Http(200, "FoundOrder", i, <<>>), InternalErrorResponse}
            /\ store' = store]_vars

\* C8 witness: a request asking an amount that is neither the received nor the
\* first requested one was answered FoundOrder with the stored Paid invoice.
C8_Witness ==
    \E r, t \in Requests :
        /\ req[t].resp.kind = "NewOrder"
        /\ req[r].handler = "order" /\ IsDone(r)
        /\ req[r].resp.kind = "FoundOrder"
        /\ req[r].resp.invoice \in store
        /\ req[r].resp.invoice.status = "Paid"
        /\ req[r].query.amount # req[r].resp.invoice.amount
        /\ req[r].query.amount # req[t].query.amount

\* C9: when the engine call of a force-withdrawal request resolves while the
\* invoice of its order is absent or Unpaid, the request is answered 400
\* NotPayable, no transfer is submitted, and the stored invoices and the
\* withdrawal markers are unchanged.
C9_NotPayable ==
    [][\A r \in Requests :
         ( /\ EngineStep(r, "force_withdrawal")
           /\ \A i \in Rows(store, req[r].query.order) : i.status = "Unpaid" )
         => /\ req'[r].resp = Http(400, "NotPayable", NoInvoice, <<>>)
            /\ transfers' = transfers
            /\ withdrawn' = withdrawn
            /\ store' = store]_vars

\* C9 witness: one force-withdrawal was answered NotPayable before the order
\* was created, another one while its invoice is Unpaid; nothing was submitted.
C9_Witness ==
    \E r, t, u \in Requests :
        /\ r < t /\ t < u
        /\ req[r].handler = "force_withdrawal" /\ req[r].resp.kind = "NotPayable"
        /\ req[t].handler = "order" /\ req[t].resp.kind = "NewOrder"
        /\ req[u].handler = "force_withdrawal" /\ req[u].resp.kind = "NotPayable"
        /\ req[t].resp.invoice \in store
        /\ \A o \in Orders : transfers[o] = 0

\* C10: a status request never ends in a panic: when the store fails during
\* the query, the request is answered with an error response.
C10_StatusNeverPanics ==
    \A r \in Requests :
        (Started(r) /\ req[r].handler = "status")
        => /\ req[r].pc = "done"
           /\ req[r].resp.status \in {200, 500}

Placeholders == {"health", "audit", "investigate", "public_payment_account"}

\* C11: every placeholder request is answered: 501 Not Implemented (200 is
\* also allowed for health), and none ends in a panic.
C11_PlaceholdersAnswer ==
    \A r \in Requests :
        (Started(r) /\ req[r].handler \in Placeholders)
        => /\ req[r].pc = "done"
           /\ req[r].resp.status \in
                (IF req[r].handler = "health" THEN {200, 501} ELSE {501})

\* the fields of a create-order request that the engine or the transport rejects
UnknownCurrencyGiven(r) ==
    /\ input[r].payload.currency # NONE
    /\ input[r].payload.currency \notin SupportedCurrencies

\* C12: every answered create-order request has the status of its outcome:
\* NewOrder 201, FoundOrder and ModifiedOrder 200, CollidedOrder 409, a
\* validation error (missing or invalid parameter, amount below the minimum,
\* unknown currency) 400, an internal error 500, and no other status.
C12_StatusMapping ==
    \A r \in Requests :
        (IsDone(r) /\ req[r].handler = "order")
        => /\ req[r].resp.status \in {201, 200, 409, 400, 500}
           /\ req[r].resp.kind = "NewOrder" => req[r].resp.status = 201
           /\ req[r].resp.kind \in {"FoundOrder", "ModifiedOrder"} => req[r].resp.status = 200
           /\ req[r].resp.kind = "CollidedOrder" => req[r].resp.status = 409
           /\ req[r].resp.kind \in {"MissingParameter", "InvalidParameter",
                                    "LessThanExistentialDeposit", "UnknownCurrency"}
                => req[r].resp.status = 400
           /\ req[r].resp.kind = "InternalError" => req[r].resp.status = 500
           /\ req[r].query.amount < ExistentialDeposit => req[r].resp.status = 400
           /\ UnknownCurrencyGiven(r) => req[r].resp.status = 400

\* C13: a create-order request that reached the engine with a currency the
\* engine does not know is answered 400 with one entry naming "currency".
C13_UnknownCurrencyIs400 ==
    \A r \in Requests :
        (IsDone(r) /\ req[r].handler = "order" /\ req[r].calls = 1 /\ UnknownCurrencyGiven(r))
        => req[r].resp = Http(400, "UnknownCurrency", NoInvoice,
                              <<[parameter |-> "currency",
                                 message |-> "provided currency isn't supported"]>>)

Names(params) == {params[i].parameter : i \in 1..Len(params)}

\* C14: a create-order request whose body lacks currency or amount is answered
\* 400 with an entry for each missing parameter, without a call of create_order.
C14_MissingParameterIs400 ==
    \A r \in Requests :
        ( /\ Started(r) /\ req[r].handler = "order"
          /\ (input[r].payload.currency = NONE \/ input[r].payload.amount = <<>>) )
        => /\ req[r].pc = "done"
           /\ req[r].calls = 0
           /\ req[r].resp.status = 400
           /\ input[r].payload.currency = NONE => "currency" \in Names(req[r].resp.params)
           /\ input[r].payload.amount = <<>> => "amount" \in Names(req[r].resp.params)

\* the offending fields of a request: the path parameter when it is rejected or
\* absent, the amount when it is missing or below the minimum, the currency
\* when it is missing or not supported
OffendingFields(r) ==
    (IF input[r].path_result.ok
        /\ \E i \in 1..Len(input[r].path_result.params) :
                input[r].path_result.params[i][1] = "order_id"
     THEN {} ELSE {"order_id"})
    \cup (IF req[r].handler = "order"
             /\ (input[r].payload.amount = <<>>
                 \/ req[r].query.amount < ExistentialDeposit)
          THEN {"amount"} ELSE {})
    \cup (IF req[r].handler = "order"
             /\ input[r].payload.currency \notin SupportedCurrencies
          THEN {"currency"} ELSE {})

\* C15: the body of every validation error of a create-order or
\* force-withdrawal request is a list with exactly one entry per offending field.
C15_OneEntryPerOffendingField ==
    \A r \in Requests :
        ( /\ IsDone(r) /\ req[r].handler \in {"order", "force_withdrawal"}
          /\ req[r].resp.status = 400 /\ req[r].resp.params # <<>> )
        => Len(req[r].resp.params) = Cardinality(OffendingFields(r))

\* C16: a force-withdrawal request is answered 201 with the invoice exactly
\* when the withdrawal succeeded, 400 with a structured body for every
\* failure, and never with another status.
C16_ForceWithdrawalStatus ==
    [][\A r \in Requests :
          (Completes(r) /\ req'[r].handler = "force_withdrawal")
          => /\ req'[r].resp.status \in {201, 400}
             /\ req'[r].resp.status = 201
                  <=> (transfers' # transfers \/ withdrawn' # withdrawn)
             /\ req'[r].resp.status = 201
                  => /\ req'[r].resp.kind = "Withdrawn"
                     /\ req'[r].resp.invoice # NoInvoice
             /\ req'[r].resp.status = 400
                  => \/ req'[r].resp.params # <<>>
                     \/ req'[r].resp.kind \notin {"Withdrawn", NONE}]_vars

C16_Witness ==
    \E r, t \in Requests :
        /\ IsDone(r) /\ req[r].handler = "force_withdrawal" /\ req[r].resp.status = 201
        /\ IsDone(t) /\ req[t].handler = "force_withdrawal" /\ req[t].resp.status = 400
        /\ req[t].calls = 1

CountStatus(status) == Cardinality({i \in store : i.status = status})

\* C18: a status query that succeeds reports the pending and paid counts of the
\* store as it is at that moment, carries Cache-Control: no-store, and no
\* status query changes an invoice.
C18_StatusFromStore ==
    [][\A r \in Requests :
          (req[r].pc = "idle" /\ req'[r].handler = "status")
          => /\ store' = store
             /\ req'[r].pc = "done"
                  => /\ req'[r].resp.status = 200
                     /\ req'[r].resp.cache = "no-store"
                     /\ req'[r].resp.pending = CountStatus("Unpaid")
                     /\ req'[r].resp.paid = CountStatus("Paid")]_vars

C18_Witness ==
    \E r, t \in Requests :
        /\ IsDone(r) /\ req[r].handler = "status"
        /\ req[r].resp.pending = 1 /\ req[r].resp.paid = 0
        /\ IsDone(t) /\ req[t].handler = "status"
        /\ req[t].resp.pending = 0 /\ req[t].resp.paid = 1

HasOrderId(path_result) ==
    \E i \in 1..Len(path_result.params) : path_result.params[i][1] = "order_id"

MatchedPathOf(handler) ==
    IF handler = "order" THEN OrderPath ELSE ForceWithdrawalPath

\* C19: process_order and process_force_withdrawal check the path first: a
\* rejected path is InvalidParameter(matched path) and a path without order_id
\* is MissingParameter("order_id"), both before the amount check and without
\* an engine call; a request calls the engine at most once and only after
\* every transport check has passed.
C19_PathCheckedFirst ==
    \A r \in Requests :
        (Started(r) /\ req[r].handler \in {"order", "force_withdrawal"})
        => /\ ~input[r].path_result.ok
                => /\ req[r].pc = "done" /\ req[r].calls = 0
                   /\ req[r].resp =
                        Http(400, "InvalidParameter", NoInvoice,
                             <<[parameter |-> MatchedPathOf(req[r].handler),
                                message |-> "parameter's format is invalid"]>>)
           /\ (input[r].path_result.ok /\ ~HasOrderId(input[r].path_result))
                => /\ req[r].pc = "done" /\ req[r].calls = 0
                   /\ req[r].resp =
                        Http(400, "MissingParameter", NoInvoice,
                             <<[parameter |-> "order_id",
                                message |-> "parameter wasn't found"]>>)
           /\ req[r].calls <= 1
           /\ (req[r].calls = 1 \/ req[r].pc = "await")
                => /\ input[r].path_result.ok
                   /\ HasOrderId(input[r].path_result)
                   /\ req[r].handler = "order"
                        => req[r].query.amount >= ExistentialDeposit

C19_Witness ==
    \E r, t \in Requests :
        /\ IsDone(r) /\ req[r].handler = "order"
        /\ ~input[r].path_result.ok /\ input[r].payload.amount = <<50>>
        /\ req[r].resp.kind = "InvalidParameter"
        /\ IsDone(t) /\ req[t].handler = "order"
        /\ input[t].path_result.ok /\ ~HasOrderId(input[t].path_result)
        /\ input[t].payload.amount = <<50>>
        /\ req[t].resp.kind = "MissingParameter"

====
